---- MODULE Spec2Model ----
(***************************************************************************)
(* The cloud-init seed image builder makeCloudInitIso of                   *)
(* extensions/models/cloud_init_iso.ts, as a state machine: one action per *)
(* statement group of the function, the locals of the function as the      *)
(* variables.  Byte buffers (Uint8Array) are sequences of 0..255; offsets  *)
(* are the source's 0-based offsets, so buffer byte `off` is buf[off + 1]. *)
(* Strings are sequences of UTF-16 code units, as in the language.         *)
(***************************************************************************)
EXTENDS Integers, Sequences, FiniteSets, TLC

\* const S = 2048 (the sector size)
S == 2048

\* Payload lengths k*S-1, k*S, k*S+1 are drawn for k in 1..MaxSpan.
MaxSpan == 1

-----------------------------------------------------------------------------
(* Uint8Array primitives *)

\* n copies of the byte v
RECURSIVE Bytes(_, _)
Bytes(v, n) ==
  IF n <= 0 THEN <<>>
  ELSE LET half == Bytes(v, n \div 2)
       IN IF n % 2 = 0 THEN half \o half ELSE half \o half \o <<v>>

\* new Uint8Array(n): n zero bytes
Zeros(n) == Bytes(0, n)

\* buf[off] read with a 0-based offset
At(buf, off) == buf[off + 1]

\* buf.subarray(from, to)
subarray(buf, from, to) == SubSeq(buf, from + 1, to)

\* TypedArray.prototype.set(src, off) raises RangeError unless the source fits
Fits(target, src, off) == off + Len(src) <= Len(target)

\* target.set(src, off)
SetAt(target, src, off) ==
  SubSeq(target, 1, off) \o src
    \o SubSeq(target, off + Len(src) + 1, Len(target))

\* target.fill(v, start, end)
Fill(target, v, start, end) ==
  SubSeq(target, 1, start) \o Bytes(v, end - start)
    \o SubSeq(target, end + 1, Len(target))

\* target[off] = v: the value is stored modulo 256; a store past the end is ignored
Put(target, off, v) ==
  IF off < Len(target) THEN [target EXCEPT ![off + 1] = v % 256] ELSE target

-----------------------------------------------------------------------------
(* TextEncoder.encode: UTF-16 code units to UTF-8 bytes *)

IsHigh(c) == c >= 55296 /\ c <= 56319
IsLow(c) == c >= 56320 /\ c <= 57343

\* the UTF-8 bytes of one code point
Utf8(cp) ==
  IF cp < 128 THEN <<cp>>
  ELSE IF cp < 2048 THEN <<192 + (cp \div 64), 128 + (cp % 64)>>
  ELSE IF cp < 65536 THEN
    <<224 + (cp \div 4096), 128 + ((cp \div 64) % 64), 128 + (cp % 64)>>
  ELSE <<240 + (cp \div 262144), 128 + ((cp \div 4096) % 64),
         128 + ((cp \div 64) % 64), 128 + (cp % 64)>>

\* the bytes contributed by code unit k of str: a surrogate pair is one code
\* point (carried by its first unit), a lone surrogate becomes U+FFFD
UnitBytes(str, k) ==
  LET c == str[k] IN
  IF IsLow(c) /\ k > 1 /\ IsHigh(str[k - 1]) THEN <<>>
  ELSE IF IsHigh(c) /\ k < Len(str) /\ IsLow(str[k + 1]) THEN
    Utf8(65536 + ((c - 55296) * 1024) + (str[k + 1] - 56320))
  ELSE IF IsHigh(c) \/ IsLow(c) THEN Utf8(65533)
  ELSE Utf8(c)

RECURSIVE EncodeRange(_, _, _)
EncodeRange(str, lo, hi) ==
  IF lo > hi THEN <<>>
  ELSE IF lo = hi THEN UnitBytes(str, lo)
  ELSE LET mid == (lo + hi) \div 2
       IN EncodeRange(str, lo, mid) \o EncodeRange(str, mid + 1, hi)

TextEncode(str) == EncodeRange(str, 1, Len(str))

-----------------------------------------------------------------------------
(* String literals of the source, as code units *)

NameMeta == <<77, 69, 84, 65, 45, 68, 65, 84, 65>>      \* "META-DATA"
NameUser == <<85, 83, 69, 82, 45, 68, 65, 84, 65>>      \* "USER-DATA"
StdId == <<67, 68, 48, 48, 49>>                          \* "CD001"
VolId == <<67, 73, 68, 65, 84, 65>>                      \* "CIDATA"
D16Text == [k \in 1..16 |-> 48]                          \* "0000000000000000"

-----------------------------------------------------------------------------
(* Both-endian encoders and the directory record *)

\* v >> n on a 32-bit signed value (sign-propagating), then & 0xFF
\* mutant of ShrByte: a division that rounds toward zero in place of the shift
ShrByteDivide(v, n) ==
  ((v \div (2 ^ n)) + (IF v < 0 /\ v % (2 ^ n) # 0 THEN 1 ELSE 0)) % 256

ShrByte(v, n) == (v \div (2 ^ n)) % 256

\* the operand of & and >> is converted to a signed 32-bit integer: the
\* number hi * 2^16 + lo, below 2^32, becomes negative when hi >= 2^15
ToInt32(w) == ((IF w.hi >= 32768 THEN w.hi - 65536 ELSE w.hi) * 65536) + w.lo

\* mutant of u32b: the second half little-endian too
u32bLittleTwice(v) ==
  <<ShrByte(v, 0), ShrByte(v, 8), ShrByte(v, 16), ShrByte(v, 24),
    ShrByte(v, 0), ShrByte(v, 8), ShrByte(v, 16), ShrByte(v, 24)>>

u32b(v) ==
  <<ShrByte(v, 0), ShrByte(v, 8), ShrByte(v, 16), ShrByte(v, 24),
    ShrByte(v, 24), ShrByte(v, 16), ShrByte(v, 8), ShrByte(v, 0)>>

\* mutant of u16b: the second half little-endian too
u16bLittleTwice(v) == <<ShrByte(v, 0), ShrByte(v, 8), ShrByte(v, 0), ShrByte(v, 8)>>

u16b(v) == <<ShrByte(v, 0), ShrByte(v, 8), ShrByte(v, 8), ShrByte(v, 0)>>

\* mutant of RecLen: no pad byte after a name of even length
RecLenNoPad(nl) == 33 + nl

\* 33 + nl + (nl % 2 === 0 ? 1 : 0)
RecLen(nl) == 33 + nl + (IF nl % 2 = 0 THEN 1 ELSE 0)

\* mutant of RecordingDate: the month as a zero-based index
RecordingDateMonthIndex == <<126, 1, 21, 0, 0, 0, 0>>

\* lines 37-38: rec[i++] = 126 ... = 2 ... = 21, then four zero bytes
RecordingDate == <<126, 2, 21, 0, 0, 0, 0>>

dirRecord(nameBytes, isDir, extentLba, dataLen) ==
  LET nl == Len(nameBytes)
      rec == Zeros(RecLen(nl))
      head == <<Len(rec) % 256, 0>> \o u32b(extentLba) \o u32b(dataLen)
              \o RecordingDate
              \o <<IF isDir THEN 2 ELSE 0>> \o <<0, 0>>
              \o u16b(1) \o <<nl % 256>>
  IN SetAt(SetAt(rec, head, 0), nameBytes, 33)

\* mutant of FirstFileLba: file data starts on the root directory sector
FirstFileLbaEarly == 19 - 1

\* let lba = 19: the first LBA after the root directory
FirstFileLba == 19

\* mutant of NewExtents: one array for all invocations, never emptied
HoistedExtents(prev) == prev

\* const extents = []: a new array, whatever an earlier invocation left
NewExtents(prev) == <<>>

\* mutant of SectorsFor: Math.floor in place of Math.ceil
SectorsForFloor(len) ==
  LET c == len \div S IN IF c = 0 THEN 1 ELSE c

\* mutant of SectorsFor: one sector more than the whole sectors of the payload
SectorsForFloorPlusOne(len) == (len \div S) + 1

\* mutant of SectorsFor: without the "|| 1"
SectorsForNoMin(len) == (len + S - 1) \div S

\* Math.ceil(data.length / S) || 1
SectorsFor(len) ==
  LET c == (len + S - 1) \div S IN IF c = 0 THEN 1 ELSE c

\* mutant of MakeFiles: the files in argument order, not in name order
MakeFilesUnsorted(u, m) ==
  << [name |-> NameUser, data |-> TextEncode(u)],
     [name |-> NameMeta, data |-> TextEncode(m)] >>

\* mutant of MakeFiles: each payload cut to the string's length in code units
MakeFilesCounted(u, m) ==
  << [name |-> NameMeta, data |-> SubSeq(TextEncode(m), 1, Len(m))],
     [name |-> NameUser, data |-> SubSeq(TextEncode(u), 1, Len(u))] >>

\* mutant of MakeFiles: each name with the other argument's bytes
MakeFilesSwappedData(u, m) ==
  << [name |-> NameMeta, data |-> TextEncode(u)],
     [name |-> NameUser, data |-> TextEncode(m)] >>

\* const files = [["META-DATA", enc.encode(metaData)], ["USER-DATA", enc.encode(userData)]]
MakeFiles(u, m) ==
  << [name |-> NameMeta, data |-> TextEncode(m)],
     [name |-> NameUser, data |-> TextEncode(u)] >>

\* mutant of NewIso: one byte short
NewIsoShort(total) == Zeros((total * S) - 1)

\* mutant of NewIso: a buffer that is not zero-initialised
NewIsoFilled(total) == Bytes(32, total * S)

\* new Uint8Array(totalSectors * S)
NewIso(total) == Zeros(total * S)

\* iso.set(pvd, 16 * S); iso.set(vdst, 17 * S); iso.set(rootDir, 18 * S)
PlaceFits(buf, p, v, r) ==
  Fits(buf, p, 16 * S) /\ Fits(buf, v, 17 * S) /\ Fits(buf, r, 18 * S)

\* mutant of Place: the LBAs used as byte offsets
PlaceByIndex(buf, p, v, r) == SetAt(SetAt(SetAt(buf, p, 16), v, 17), r, 18)

Place(buf, p, v, r) ==
  SetAt(SetAt(SetAt(buf, p, 16 * S), v, 17 * S), r, 18 * S)

-----------------------------------------------------------------------------
(* The readers of the test suite *)

\* (buf[off] | buf[off + 1] << 8 | buf[off + 2] << 16 | buf[off + 3] << 24) >>> 0
u32le(buf, off) ==
  At(buf, off) + (At(buf, off + 1) * 256) + (At(buf, off + 2) * 65536)
    + (At(buf, off + 3) * 16777216)

\* buf[off] | buf[off + 1] << 8
u16le(buf, off) == At(buf, off) + (At(buf, off + 1) * 256)

\* buf[off] << 8 | buf[off + 1]
u16be(buf, off) == (At(buf, off) * 256) + At(buf, off + 1)

\* the loop of parseRootDir from offset off; an entry keeps its name as bytes
RECURSIVE ParseFrom(_, _)
ParseFrom(sector, off) ==
  IF off >= S THEN <<>>
  ELSE LET recLen == At(sector, off) IN
       IF recLen = 0 THEN <<>>
       ELSE LET nameLen == At(sector, off + 32)
                entry == [name |-> subarray(sector, off + 33, off + 33 + nameLen),
                          extentLba |-> u32le(sector, off + 2),
                          dataLen |-> u32le(sector, off + 10),
                          isDir |-> (At(sector, off + 25) \div 2) % 2 = 1]
            IN <<entry>> \o ParseFrom(sector, off + recLen)

parseRootDir(image, at) == ParseFrom(subarray(image, at * S, (at + 1) * S), 0)

\* the bytes fileContent decodes
fileContent(image, entry) ==
  subarray(image, entry.extentLba * S, (entry.extentLba * S) + entry.dataLen)

-----------------------------------------------------------------------------
(* Inputs *)

Repeat(pat, n) == [k \in 1..n |-> pat[((k - 1) % Len(pat)) + 1]]

PatX == <<120>>                                  \* "x"
\* "a", e-acute, euro sign, a surrogate pair, a lone low surrogate
PatMixed == <<97, 233, 8364, 55357, 56832, 56832>>

AsciiLengths ==
  {0, 1, 3000} \cup {k * S + d : k \in 1..MaxSpan, d \in {-1, 0, 1}}

Payloads ==
  {Repeat(PatX, n) : n \in AsciiLengths}
    \cup {Repeat(PatMixed, n) : n \in {4, 6, 1000}}

\* "#cloud-config\nhostname: myvm\n"
ExampleUser ==
  <<35, 99, 108, 111, 117, 100, 45, 99, 111, 110, 102, 105, 103, 10,
    104, 111, 115, 116, 110, 97, 109, 101, 58, 32, 109, 121, 118, 109, 10>>

\* "instance-id: myvm\n"
ExampleMeta ==
  <<105, 110, 115, 116, 97, 110, 99, 101, 45, 105, 100, 58, 32,
    109, 121, 118, 109, 10>>

\* the (userData, metaData) pairs of the calls
Inputs == (Payloads \X Payloads) \cup {<<ExampleUser, ExampleMeta>>}

-----------------------------------------------------------------------------
VARIABLES
  userData, metaData,   \* the arguments
  pc,                   \* position in makeCloudInitIso
  files,                \* [name, data] pairs, in directory order
  lba, extents, totalSectors,
  dotRec, dotdotRec, rootDir, doff,
  i,                    \* index of the loops at lines 54 and 77
  pvd, vdst, iso,
  result,               \* the returned buffer
  calls,                \* the number of invocations begun
  seen,                 \* what the invocations that ended returned
  parked,               \* the suspended invocations (at most one)
  recArgs, recOut,      \* the arguments and the result of a dirRecord call
  encArg, encOut,       \* the argument and the results of an encoder call
  now,                  \* Date.now(), in milliseconds
  disk,                 \* the files under /tmp: <<path, what was written>>
  inv,                  \* the method invocations on the host, by process
  resources             \* the resources written through context.writeResource

\* the arguments and locals of one invocation
frame == <<userData, metaData, pc, files, lba, extents, totalSectors,
           dotRec, dotdotRec, rootDir, doff, i, pvd, vdst, iso, result>>

\* what no step of makeCloudInitIso reads or writes
\* the encoder call under observation
enc == <<encArg, encOut>>

\* the host the VM methods run on
host == <<now, disk, inv, resources>>

outside == <<calls, seen, parked, recArgs, recOut, enc, host>>

vars == <<frame, outside>>

\* no dirRecord call under observation
NoRecArgs == [nameBytes |-> <<>>, isDir |-> FALSE, extentLba |-> 0, dataLen |-> 0]

\* no encoder call under observation
NoEnc == encArg = [hi |-> 0, lo |-> 0] /\ encOut = <<>>

\* no VM method running
NoHost == now = 0 /\ disk = {} /\ inv = <<>> /\ resources = {}

\* one invocation, nothing before it and nothing beside it
Alone ==
  /\ calls = 1
  /\ seen = {}
  /\ parked = <<>>
  /\ recArgs = NoRecArgs
  /\ recOut = <<>>
  /\ NoEnc
  /\ NoHost

\* the locals of an invocation that has not assigned them yet
Unassigned ==
  /\ files = <<>>
  /\ lba = 0
  /\ extents = <<>>
  /\ totalSectors = 0
  /\ dotRec = <<>>
  /\ dotdotRec = <<>>
  /\ rootDir = <<>>
  /\ doff = 0
  /\ i = 0
  /\ pvd = <<>>
  /\ vdst = <<>>
  /\ iso = <<>>
  /\ result = <<>>

Init ==
  /\ \E args \in Inputs : userData = args[1] /\ metaData = args[2]
  /\ pc = "encode"
  /\ Unassigned
  /\ Alone

\* lines 8-16: encode the two payloads, META-DATA first; let lba = 19
EncodeFiles ==
  /\ pc = "encode"
  /\ files' = MakeFiles(userData, metaData)
  /\ lba' = FirstFileLba
  /\ extents' = NewExtents(extents)
  /\ pc' = "layout"
  /\ UNCHANGED <<outside, userData, metaData, totalSectors, dotRec, dotdotRec,
                 rootDir, doff, i, pvd, vdst, iso, result>>

\* lines 18-21: one iteration of the extent loop
AssignExtent ==
  /\ pc = "layout"
  /\ Len(extents) < Len(files)
  /\ extents' = Append(extents, lba)
  /\ lba' = lba + SectorsFor(Len(files[Len(extents) + 1].data))
  /\ UNCHANGED <<outside, userData, metaData, pc, files, totalSectors, dotRec,
                 dotdotRec, rootDir, doff, i, pvd, vdst, iso, result>>

\* line 22: const totalSectors = lba
FinishLayout ==
  /\ pc = "layout"
  /\ Len(extents) = Len(files)
  /\ totalSectors' = lba
  /\ pc' = "dots"
  /\ UNCHANGED <<outside, userData, metaData, files, lba, extents, dotRec, dotdotRec,
                 rootDir, doff, i, pvd, vdst, iso, result>>

\* a step that raises: the call ends with no image
Throw ==
  /\ pc' = "threw"
  /\ UNCHANGED <<outside, userData, metaData, files, lba, extents, totalSectors,
                 dotRec, dotdotRec, rootDir, doff, i, pvd, vdst, iso, result>>

\* lines 47-48: the dot and dotdot records
BuildDotRecords ==
  /\ pc = "dots"
  /\ dotRec' = dirRecord(<<0>>, TRUE, 18, S)
  /\ dotdotRec' = dirRecord(<<1>>, TRUE, 18, S)
  /\ pc' = "rootdir"
  /\ UNCHANGED <<outside, userData, metaData, files, lba, extents, totalSectors,
                 rootDir, doff, i, pvd, vdst, iso, result>>

\* lines 50-53: the root directory sector, with the dot and dotdot records
BuildRootDir ==
  /\ pc = "rootdir"
  /\ LET r0 == Zeros(S)
         r1 == SetAt(r0, dotRec, 0)
         d1 == Len(dotRec)
     IN IF Fits(r0, dotRec, 0) /\ Fits(r1, dotdotRec, d1)
        THEN /\ rootDir' = SetAt(r1, dotdotRec, d1)
             /\ doff' = d1 + Len(dotdotRec)
             /\ i' = 0
             /\ pc' = "filerecs"
             /\ UNCHANGED <<outside, userData, metaData, files, lba, extents,
                            totalSectors, dotRec, dotdotRec, pvd, vdst, iso,
                            result>>
        ELSE Throw

\* mutant of AddFileRecord: the sector-rounded size as the data length
AddFileRecordRounded ==
  /\ pc = "filerecs"
  /\ i < Len(files)
  /\ LET rec == dirRecord(TextEncode(files[i + 1].name), FALSE,
                          extents[i + 1],
                          SectorsFor(Len(files[i + 1].data)) * S)
     IN IF Fits(rootDir, rec, doff)
        THEN /\ rootDir' = SetAt(rootDir, rec, doff)
             /\ doff' = doff + Len(rec)
             /\ i' = i + 1
             /\ UNCHANGED <<outside, userData, metaData, pc, files, lba, extents,
                            totalSectors, dotRec, dotdotRec, pvd, vdst, iso,
                            result>>
        ELSE Throw

\* mutant of AddFileRecord: the offset advanced one byte too far
AddFileRecordGap ==
  /\ pc = "filerecs"
  /\ i < Len(files)
  /\ LET rec == dirRecord(TextEncode(files[i + 1].name), FALSE,
                          extents[i + 1], Len(files[i + 1].data))
     IN IF Fits(rootDir, rec, doff)
        THEN /\ rootDir' = SetAt(rootDir, rec, doff)
             /\ doff' = doff + Len(rec) + 1
             /\ i' = i + 1
             /\ UNCHANGED <<outside, userData, metaData, pc, files, lba, extents,
                            totalSectors, dotRec, dotdotRec, pvd, vdst, iso,
                            result>>
        ELSE Throw

\* lines 54-57: one iteration of the file record loop
AddFileRecord ==
  /\ pc = "filerecs"
  /\ i < Len(files)
  /\ LET rec == dirRecord(TextEncode(files[i + 1].name), FALSE,
                          extents[i + 1], Len(files[i + 1].data))
     IN IF Fits(rootDir, rec, doff)
        THEN /\ rootDir' = SetAt(rootDir, rec, doff)
             /\ doff' = doff + Len(rec)
             /\ i' = i + 1
             /\ UNCHANGED <<outside, userData, metaData, pc, files, lba, extents,
                            totalSectors, dotRec, dotdotRec, pvd, vdst, iso,
                            result>>
        ELSE Throw

\* line 54: the loop ends
EndFileRecords ==
  /\ pc = "filerecs"
  /\ i >= Len(files)
  /\ pc' = "pvd"
  /\ UNCHANGED <<outside, userData, metaData, files, lba, extents, totalSectors,
                 dotRec, dotdotRec, rootDir, doff, i, pvd, vdst, iso, result>>

\* lines 68-69: for (const off of [813, 830, 847, 864]) { set(d16, off); [off + 16] = 0 }
RECURSIVE PvdDates(_, _)
PvdDates(buf, offs) ==
  IF offs = <<>> THEN buf
  ELSE PvdDates(Put(SetAt(buf, TextEncode(D16Text), Head(offs)),
                    Head(offs) + 16, 0),
                Tail(offs))

\* mutant of PvdHeader: without the fill after the volume identifier
PvdHeaderNoPad(p) ==
  LET p1 == Put(SetAt(Put(p, 0, 1), TextEncode(StdId), 1), 6, 1)
      p2 == Fill(p1, 32, 8, 40)
  IN SetAt(p2, TextEncode(VolId), 40)

\* lines 60-62: type, standard identifier, version, system and volume identifiers
PvdHeader(p) ==
  LET p1 == Put(SetAt(Put(p, 0, 1), TextEncode(StdId), 1), 6, 1)
      p2 == Fill(p1, 32, 8, 40)
  IN Fill(SetAt(p2, TextEncode(VolId), 40), 32, 46, 72)

\* mutant of PvdSizes: a path table of ten bytes announced
PvdSizesPathTable(p, total) ==
  LET p4 == SetAt(p, u32b(total), 80)
      p5 == SetAt(SetAt(SetAt(p4, u16b(1), 120), u16b(1), 124), u16b(S), 128)
  IN SetAt(p5, u32b(10), 132)

\* mutant of PvdSizes: the volume space size in bytes, not in sectors
PvdSizesInBytes(p, total) ==
  LET p4 == SetAt(p, u32b(total * S), 80)
      p5 == SetAt(SetAt(SetAt(p4, u16b(1), 120), u16b(1), 124), u16b(S), 128)
  IN SetAt(p5, u32b(0), 132)

\* lines 63-65: volume space size, set size, sequence number, block size,
\* path table size
PvdSizes(p, total) ==
  LET p4 == SetAt(p, u32b(total), 80)
      p5 == SetAt(SetAt(SetAt(p4, u16b(1), 120), u16b(1), 124), u16b(S), 128)
  IN SetAt(p5, u32b(0), 132)

\* mutant of PvdRoot: the embedded record one byte late
PvdRootShifted(p, rootRec) == Fill(SetAt(p, rootRec, 157), 32, 191, 813)

\* lines 66-67: the embedded root directory record, then space padding
PvdRoot(p, rootRec) == Fill(SetAt(p, rootRec, 156), 32, 190, 813)

\* lines 59-70: the primary volume descriptor
MakePvd(total, rootRec) ==
  LET p3 == PvdHeader(Zeros(S))
      p6 == PvdSizes(p3, total)
      p8 == PvdRoot(p6, rootRec)
      p9 == PvdDates(p8, <<813, 830, 847, 864>>)
  IN Put(p9, 881, 1)

BuildPvd ==
  /\ pc = "pvd"
  /\ IF Fits(Zeros(S), dotRec, 156)
     THEN /\ pvd' = MakePvd(totalSectors, dotRec)
          /\ pc' = "vdst"
          /\ UNCHANGED <<outside, userData, metaData, files, lba, extents,
                         totalSectors, dotRec, dotdotRec, rootDir, doff, i,
                         vdst, iso, result>>
     ELSE Throw

\* mutant of MakeVdst: the type byte left at zero
MakeVdstNoType == Put(SetAt(Zeros(S), TextEncode(StdId), 1), 6, 1)

\* lines 72-73: the volume descriptor set terminator
MakeVdst == Put(SetAt(Put(Zeros(S), 0, 255), TextEncode(StdId), 1), 6, 1)

BuildVdst ==
  /\ pc = "vdst"
  /\ vdst' = MakeVdst
  /\ pc' = "alloc"
  /\ UNCHANGED <<outside, userData, metaData, files, lba, extents, totalSectors,
                 dotRec, dotdotRec, rootDir, doff, i, pvd, iso, result>>

\* line 75: const iso = new Uint8Array(totalSectors * S)
AllocIso ==
  /\ pc = "alloc"
  /\ iso' = NewIso(totalSectors)
  /\ pc' = "place"
  /\ UNCHANGED <<outside, userData, metaData, files, lba, extents, totalSectors,
                 dotRec, dotdotRec, rootDir, doff, i, pvd, vdst, result>>

\* line 76: the three structural sectors at LBA 16, 17, 18
PlaceDescriptors ==
  /\ pc = "place"
  /\ IF PlaceFits(iso, pvd, vdst, rootDir)
     THEN /\ iso' = Place(iso, pvd, vdst, rootDir)
          /\ i' = 0
          /\ pc' = "copy"
          /\ UNCHANGED <<outside, userData, metaData, files, lba, extents,
                         totalSectors, dotRec, dotdotRec, rootDir, doff, pvd,
                         vdst, result>>
     ELSE Throw

\* line 77: one iteration of the copy loop
CopyFile ==
  /\ pc = "copy"
  /\ i < Len(files)
  /\ IF Fits(iso, files[i + 1].data, extents[i + 1] * S)
     THEN /\ iso' = SetAt(iso, files[i + 1].data, extents[i + 1] * S)
          /\ i' = i + 1
          /\ UNCHANGED <<outside, userData, metaData, pc, files, lba, extents,
                         totalSectors, dotRec, dotdotRec, rootDir, doff, pvd,
                         vdst, result>>
     ELSE Throw

\* line 78: return iso
Return ==
  /\ pc = "copy"
  /\ i >= Len(files)
  /\ result' = iso
  /\ pc' = "done"
  /\ UNCHANGED <<outside, userData, metaData, files, lba, extents, totalSectors,
                 dotRec, dotdotRec, rootDir, doff, i, pvd, vdst, iso>>

\* lines 6-79: makeCloudInitIso, step by step
Next ==
  \/ EncodeFiles
  \/ AssignExtent
  \/ FinishLayout
  \/ BuildDotRecords
  \/ BuildRootDir
  \/ AddFileRecord
  \/ EndFileRecords
  \/ BuildPvd
  \/ BuildVdst
  \/ AllocIso
  \/ PlaceDescriptors
  \/ CopyFile
  \/ Return

Spec == Init /\ [][Next]_vars

-----------------------------------------------------------------------------
(* dirRecord on its own: one call per behaviour *)

\* the longest name drawn
MaxNameLen == 260

\* a name of n bytes, none of them zero
NameOfLen(n) == [k \in 1..n |-> 65 + (k % 26)]

InitRec ==
  /\ userData = <<>> /\ metaData = <<>>
  /\ pc = "idle"
  /\ Unassigned
  /\ calls = 0 /\ seen = {} /\ parked = <<>>
  /\ recArgs \in [nameBytes : {NameOfLen(n) : n \in 0..MaxNameLen},
                  isDir : BOOLEAN,
                  extentLba : {18, 19},
                  dataLen : {0, S + 1}]
  /\ recOut = <<>>
  /\ NoEnc
  /\ NoHost

\* lines 30-45: dirRecord(nameBytes, isDir, extentLba, dataLen)
DirRecordCall ==
  /\ pc = "idle"
  /\ recOut = <<>>
  /\ recOut' = dirRecord(recArgs.nameBytes, recArgs.isDir, recArgs.extentLba,
                         recArgs.dataLen)
  /\ UNCHANGED <<frame, calls, seen, parked, recArgs, enc, host>>

NextRec == DirRecordCall

SpecRec == InitRec /\ [][NextRec]_vars

-----------------------------------------------------------------------------
(* Properties of the returned image *)

Done == pc = "done"

\* the payload bytes the caller's strings encode to
UserBytes == TextEncode(userData)
MetaBytes == TextEncode(metaData)

\* the root directory of the returned image, as the test suite reads it
Entries == parseRootDir(result, 18)

\* the entries of the root directory with the given name
Named(es, nm) == {k \in 1..Len(es) : es[k].name = nm}

\* the least n with n * S >= len
CeilSectors(len) ==
  CHOOSE n \in 0..len : n * S >= len /\ (n = 0 \/ (n - 1) * S < len)

Max(a, b) == IF a >= b THEN a ELSE b

\* C1: reading the returned image from extentLba * 2048 for the recorded data
\* length of the USER-DATA entry yields the bytes of userData, and of the
\* META-DATA entry the bytes of metaData.
C1_RoundTrip ==
  Done =>
    /\ Named(Entries, NameUser) # {}
    /\ Named(Entries, NameMeta) # {}
    /\ \A k \in Named(Entries, NameUser) :
         fileContent(result, Entries[k]) = UserBytes
    /\ \A k \in Named(Entries, NameMeta) :
         fileContent(result, Entries[k]) = MetaBytes

\* a returned image whose two payloads both span more than one sector
C1_Witness ==
  Done /\ Len(files[1].data) > S /\ Len(files[2].data) = 3000

\* C2: the data length recorded for META-DATA and for USER-DATA is the exact
\* encoded byte length of the payload, not the sector-rounded size.
C2_DataLenExact ==
  Done =>
    /\ \A k \in Named(Entries, NameUser) : Entries[k].dataLen = Len(UserBytes)
    /\ \A k \in Named(Entries, NameMeta) : Entries[k].dataLen = Len(MetaBytes)
    /\ Cardinality(Named(Entries, NameUser)) = 1
    /\ Cardinality(Named(Entries, NameMeta)) = 1

\* a returned image with an empty payload and one that is no multiple of 2048
C2_Witness ==
  Done /\ Len(files[1].data) = 0 /\ Len(files[2].data) = S + 1

\* C3: META-DATA is at LBA 19, USER-DATA right after META-DATA's
\* max(1, ceil(metaLen / 2048)) sectors, and the total sector count is
\* USER-DATA's extent plus max(1, ceil(userLen / 2048)).
C3_Layout ==
  pc \notin {"encode", "layout", "threw"} =>
    LET metaExtent == 19
        userExtent == 19 + Max(1, CeilSectors(Len(MetaBytes)))
    IN /\ Len(extents) = 2
       /\ files[1].name = NameMeta /\ extents[1] = metaExtent
       /\ files[2].name = NameUser /\ extents[2] = userExtent
       /\ totalSectors = userExtent + Max(1, CeilSectors(Len(UserBytes)))
       /\ Done =>
            /\ \A k \in Named(Entries, NameMeta) :
                 Entries[k].extentLba = metaExtent
            /\ \A k \in Named(Entries, NameUser) :
                 Entries[k].extentLba = userExtent

\* a finished layout where META-DATA fills exactly one sector and USER-DATA
\* needs two
C3_Witness ==
  /\ pc = "dots"
  /\ Len(files[1].data) = S
  /\ Len(files[2].data) = S + 1
  /\ extents = <<19, 20>>
  /\ totalSectors = 22

\* C4: the length of the output buffer is a multiple of 2048 and greater than
\* 16 * 2048, from its allocation to its return.
C4_SizeInvariant ==
  /\ pc \in {"place", "copy", "done"} =>
       Len(iso) % 2048 = 0 /\ Len(iso) > 16 * 2048
  /\ Done => Len(result) % 2048 = 0 /\ Len(result) > 16 * 2048

\* a returned image of more than the minimal 21 sectors
C4_Witness == Done /\ Len(result) = 23 * S

\* C5: the little-endian u32 at offset 80 of LBA 16 is the final value of the
\* running LBA counter, and that value times 2048 is the output length.
C5_VolumeSize ==
  Done =>
    /\ u32le(result, (16 * S) + 80) = lba
    /\ lba * 2048 = Len(result)

\* a returned image whose counter advanced by more than one sector per file
C5_Witness == Done /\ lba = 23 /\ u32le(result, (16 * S) + 80) = 23

\* C6: walking LBA 18 yields exactly four entries: dot and dotdot (directory
\* flag set), then META-DATA and USER-DATA (plain files, names of 9 bytes
\* without a version suffix).
C6_DirectoryContents ==
  Done =>
    /\ Len(Entries) = 4
    /\ Entries[1].name = <<0>> /\ Entries[1].isDir
    /\ Entries[2].name = <<1>> /\ Entries[2].isDir
    /\ Entries[3].name = <<77, 69, 84, 65, 45, 68, 65, 84, 65>>
    /\ ~Entries[3].isDir
    /\ Entries[4].name = <<85, 83, 69, 82, 45, 68, 65, 84, 65>>
    /\ ~Entries[4].isDir
    /\ \A k \in {3, 4} :
         At(result, (18 * S) + 68 + ((k - 3) * 42) + 32) = 9

\* a returned image with two different payloads, read as four entries
C6_Witness ==
  Done /\ userData # metaData /\ Len(Entries) = 4 /\ Len(files[1].data) > 0

\* C7: every non-directory entry of the root directory has an extent LBA of
\* at least 19, in the root directory sector as built and as returned.
C7_ExtentPlacement ==
  /\ pc \in {"pvd", "vdst", "alloc", "place", "copy", "done"} =>
       LET es == ParseFrom(rootDir, 0)
       IN \A k \in 1..Len(es) : ~es[k].isDir => es[k].extentLba >= 19
  /\ Done =>
       \A k \in 1..Len(Entries) :
         ~Entries[k].isDir => Entries[k].extentLba >= 19

\* a returned image with two plain files in its root directory
C7_Witness ==
  Done /\ Cardinality({k \in 1..Len(Entries) : ~Entries[k].isDir}) = 2

\* C8: with two empty payloads the build succeeds and returns 21 sectors:
\* both data lengths 0, META-DATA at LBA 19, USER-DATA at LBA 20, PVD type 1.
C8_EmptyInputs ==
  (userData = <<>> /\ metaData = <<>>) =>
    /\ pc # "threw"
    /\ Done =>
         /\ Len(result) = 21 * 2048
         /\ Len(result) % 2048 = 0 /\ Len(result) > 16 * 2048
         /\ Len(Entries) = 4
         /\ Entries[3].dataLen = 0 /\ Entries[3].extentLba = 19
         /\ Entries[4].dataLen = 0 /\ Entries[4].extentLba = 20
         /\ At(result, 16 * 2048) = 1

\* the image returned for two empty payloads
C8_Witness == Done /\ userData = <<>> /\ metaData = <<>> /\ result # <<>>

\* C9: every byte of the output in [0, 16 * 2048) is zero.
C9_ZeroSystemArea ==
  Done => \A k \in 0..((16 * 2048) - 1) : At(result, k) = 0

\* a returned image whose payloads are not empty
C9_Witness == Done /\ Len(files[1].data) = 1 /\ Len(files[2].data) = S - 1

\* C10: LBA 16 starts with type 1, "CD001", version 1; LBA 17 with type 255,
\* "CD001", version 1.
C10_DescriptorHeaders ==
  Done =>
    /\ At(result, 16 * 2048) = 1
    /\ subarray(result, (16 * 2048) + 1, (16 * 2048) + 6) = <<67, 68, 48, 48, 49>>
    /\ At(result, (16 * 2048) + 6) = 1
    /\ At(result, 17 * 2048) = 255
    /\ subarray(result, (17 * 2048) + 1, (17 * 2048) + 6) = <<67, 68, 48, 48, 49>>
    /\ At(result, (17 * 2048) + 6) = 1

\* a returned image with multi-byte text in both payloads
C10_Witness ==
  Done /\ Len(files[1].data) > Len(metaData) /\ Len(files[2].data) > Len(userData)

\* the big-endian u32 at off
u32be(buf, off) ==
  (At(buf, off) * 16777216) + (At(buf, off + 1) * 65536)
    + (At(buf, off + 2) * 256) + At(buf, off + 3)

\* the image's LBA 16, 2048 bytes
PvdSector == subarray(result, 16 * 2048, 17 * 2048)

\* C11: bytes [40,72) of LBA 16 are "CIDATA" followed by 26 spaces.
C11_VolumeId ==
  Done =>
    subarray(PvdSector, 40, 72) = <<67, 73, 68, 65, 84, 65>> \o Bytes(32, 26)

\* a returned image whose payloads differ in length
C11_Witness == Done /\ Len(files[1].data) = 3000 /\ Len(files[2].data) = 0

\* C12: the little-endian u16 at offset 128 of LBA 16 and the big-endian u16
\* at offset 130 are both 2048.
C12_BlockSize ==
  Done => u16le(PvdSector, 128) = 2048 /\ u16be(PvdSector, 130) = 2048

\* a returned image of 22 sectors
C12_Witness == Done /\ Len(result) = 22 * S /\ Len(files[2].data) = 1

\* C13: the record at offset 156 of LBA 16 carries extent 18 as little-endian
\* u32 at 158 and as big-endian u32 at 162.
C13_RootDirPointer ==
  Done => u32le(PvdSector, 158) = 18 /\ u32be(PvdSector, 162) = 18

\* a returned image whose embedded record is the dot record
C13_Witness ==
  Done /\ subarray(PvdSector, 156, 190) = dotRec /\ Len(files[2].data) = S

\* the offsets of the records of a directory sector, walked as parseRootDir does
RECURSIVE RecordOffsets(_, _)
RecordOffsets(sector, off) ==
  IF off >= S \/ At(sector, off) = 0 THEN <<>>
  ELSE <<off>> \o RecordOffsets(sector, off + At(sector, off))

BothEndian32(buf, off) == u32le(buf, off) = u32be(buf, off + 4)
BothEndian16(buf, off) == u16le(buf, off) = u16be(buf, off + 2)

\* the absolute offsets of all directory records of the returned image: those
\* of LBA 18 and the copy in the PVD
AllRecordOffsets ==
  LET offs == RecordOffsets(subarray(result, 18 * S, 19 * S), 0)
  IN {(18 * S) + offs[k] : k \in 1..Len(offs)} \cup {(16 * S) + 156}

\* C14: every both-endian field (extent, data length and volume sequence
\* number of every record; volume space size, set size, sequence number,
\* block size and path table size of the PVD) is the little-endian encoding
\* followed by the big-endian encoding of one value.
C14_BothEndian ==
  Done =>
    /\ Cardinality(AllRecordOffsets) = 5
    /\ \A r \in AllRecordOffsets :
         /\ BothEndian32(result, r + 2)
         /\ BothEndian32(result, r + 10)
         /\ BothEndian16(result, r + 28) /\ u16le(result, r + 28) = 1
    /\ BothEndian32(PvdSector, 80) /\ u32le(PvdSector, 80) = totalSectors
    /\ BothEndian16(PvdSector, 120) /\ u16le(PvdSector, 120) = 1
    /\ BothEndian16(PvdSector, 124) /\ u16le(PvdSector, 124) = 1
    /\ BothEndian16(PvdSector, 128) /\ u16le(PvdSector, 128) = 2048
    /\ BothEndian32(PvdSector, 132) /\ u32le(PvdSector, 132) = 0

\* a returned image whose data lengths need two bytes
C14_Witness ==
  Done /\ Len(files[1].data) = S + 1 /\ Len(files[2].data) = 3000

IsExample == userData = ExampleUser /\ metaData = ExampleMeta

\* what the example's image shows besides META-DATA's recorded length
ExampleShape ==
  /\ Len(Entries) = 4
  /\ Entries[3].name = NameMeta /\ Entries[4].name = NameUser
  /\ Entries[4].dataLen = 29
  /\ Entries[3].extentLba >= 19 /\ Entries[4].extentLba >= 19
  /\ Len(result) % 2048 = 0

\* C15 as stated: the example image lists META-DATA with 19 bytes, then
\* USER-DATA with 29 bytes, both extents at LBA >= 19, length a multiple of 2048.
C15_AsClaimed ==
  (Done /\ IsExample) => ExampleShape /\ Entries[3].dataLen = 19

\* C15, amended: the example image lists META-DATA with 18 bytes (the length
\* of "instance-id: myvm\n"), then USER-DATA with 29 bytes, both extents at
\* LBA >= 19, length a multiple of 2048.
C15_Example ==
  (Done /\ IsExample) => ExampleShape /\ Entries[3].dataLen = 18

\* the image returned for the example
C15_Witness == Done /\ IsExample /\ Len(result) = 21 * S

\* C16: for each file, the bytes from the end of its payload to the end of its
\* last occupied sector are zero.
C16_TailPadding ==
  Done =>
    /\ Len(Entries) = 4
    /\ \A k \in {3, 4} :
         LET from == (Entries[k].extentLba * 2048) + Entries[k].dataLen
             to == (Entries[k].extentLba
                      + Max(1, CeilSectors(Entries[k].dataLen))) * 2048
         IN to <= Len(result) /\ subarray(result, from, to) = Zeros(to - from)

\* a returned image with a partly filled last sector in each file
C16_Witness ==
  Done /\ Len(files[1].data) = S + 1 /\ Len(files[2].data) = S - 1

\* C17: the build never raises: it is always at a step of the function or
\* returned, every write into a buffer lies within the buffer (the sectors at
\* LBA 16-18, each record of the root directory, each payload at its extent),
\* and the returned image is the whole buffer.
C17_NoError ==
  /\ pc \in {"encode", "layout", "dots", "rootdir", "filerecs", "pvd", "vdst",
             "alloc", "place", "copy", "done"}
  /\ pc = "layout" => Len(extents) <= Len(files)
  /\ pc = "rootdir" =>
       Fits(Zeros(S), dotRec, 0) /\ Fits(Zeros(S), dotdotRec, Len(dotRec))
  /\ (pc = "filerecs" /\ i < Len(files)) =>
       Fits(rootDir, dirRecord(TextEncode(files[i + 1].name), FALSE,
                               extents[i + 1], Len(files[i + 1].data)), doff)
  /\ pc = "pvd" => Fits(Zeros(S), dotRec, 156)
  /\ pc = "place" => PlaceFits(iso, pvd, vdst, rootDir)
  /\ (pc = "copy" /\ i < Len(files)) =>
       Fits(iso, files[i + 1].data, extents[i + 1] * S)
  /\ Done => Len(result) = totalSectors * S /\ result = iso

\* the copy of a payload that ends exactly at the end of the buffer
C17_Witness ==
  /\ pc = "copy" /\ i = 1
  /\ (extents[2] * S) + Len(files[2].data) = Len(iso)

-----------------------------------------------------------------------------
(* u32b and u16b on their own: one call of each per behaviour *)

\* the 16-bit halves the encoded numbers are made of
EncWords == {0, 1, 127, 128, 255, 256, 32767, 32768, 65535}

InitEnc ==
  /\ userData = <<>> /\ metaData = <<>>
  /\ pc = "idle"
  /\ Unassigned
  /\ calls = 0 /\ seen = {} /\ parked = <<>>
  /\ recArgs = NoRecArgs /\ recOut = <<>>
  /\ encArg \in [hi : EncWords, lo : EncWords]
  /\ encOut = <<>>
  /\ NoHost

\* lines 24-28: u32b(v) with v = hi * 2^16 + lo, and u16b(v) with v = lo
EncoderCall ==
  /\ pc = "idle"
  /\ encOut = <<>>
  /\ encOut' = <<u32b(ToInt32(encArg)), u16b(encArg.lo)>>
  /\ UNCHANGED <<frame, calls, seen, parked, recArgs, recOut, encArg, host>>

NextEnc == EncoderCall

SpecEnc == InitEnc /\ [][NextEnc]_vars

-----------------------------------------------------------------------------
(* makeCloudInitIso called again and again by one caller *)

\* the number of invocations in one behaviour
MaxCalls == 3

\* the payloads of the repeated calls
CallPayloads == {<<>>, Repeat(PatX, S + 1)}

CallInputs == CallPayloads \X CallPayloads

\* a buffer, cut into its sectors
Sectors(buf) == [k \in 1..(Len(buf) \div S) |-> SubSeq(buf, (k - 1) * S + 1, k * S)]

InitSeq ==
  /\ \E args \in CallInputs : userData = args[1] /\ metaData = args[2]
  /\ pc = "encode"
  /\ Unassigned
  /\ Alone

\* the caller takes what the invocation returned (or its exception) and
\* invokes makeCloudInitIso again.  The returned buffer goes to the caller;
\* the other locals keep what the ended invocation left in them, so that a
\* step that read a local before assigning it would carry data over.
CallAgain ==
  /\ pc \in {"done", "threw"}
  /\ calls < MaxCalls
  /\ seen' = seen \cup {[userData |-> userData, metaData |-> metaData,
                         outcome |-> pc, image |-> Sectors(result)]}
  /\ calls' = calls + 1
  /\ \E args \in CallInputs : userData' = args[1] /\ metaData' = args[2]
  /\ pc' = "encode"
  /\ iso' = <<>>
  /\ result' = <<>>
  /\ UNCHANGED <<files, lba, extents, totalSectors, dotRec, dotdotRec, rootDir,
                 doff, i, pvd, vdst, parked, recArgs, recOut, enc, host>>

NextSeq ==
  \/ Next
  \/ CallAgain

SpecSeq == InitSeq /\ [][NextSeq]_vars

-----------------------------------------------------------------------------
(* makeCloudInitIso called twice, the second time with one payload replaced
   by another of the same encoded length *)

\* "xx", "yy", e-acute (two bytes), a lone high and a lone low surrogate
\* (three bytes each, the same three), and two payloads of S + 1 bytes
PairPayloads ==
  {<<120, 120>>, <<121, 121>>, <<233>>, <<55357>>, <<56832>>,
   Repeat(PatX, S + 1), Repeat(<<121>>, S + 1)}

\* the argument pairs that differ from (u, m) in one string only, which
\* encodes to as many bytes as the one it replaces
Variants(u, m) ==
  {<<u2, m>> : u2 \in {x \in PairPayloads :
                         x # u /\ Len(TextEncode(x)) = Len(TextEncode(u))}}
  \cup
  {<<u, m2>> : m2 \in {x \in PairPayloads :
                         x # m /\ Len(TextEncode(x)) = Len(TextEncode(m))}}

InitPair ==
  /\ \E args \in PairPayloads \X PairPayloads :
       userData = args[1] /\ metaData = args[2]
  /\ pc = "encode"
  /\ Unassigned
  /\ Alone

\* the caller keeps the image and calls again with a variant of the arguments
CallVariant ==
  /\ pc = "done"
  /\ calls = 1
  /\ seen' = seen \cup {[userData |-> userData, metaData |-> metaData,
                         outcome |-> pc, image |-> Sectors(result)]}
  /\ calls' = 2
  /\ \E args \in Variants(userData, metaData) :
       userData' = args[1] /\ metaData' = args[2]
  /\ pc' = "encode"
  /\ iso' = <<>>
  /\ result' = <<>>
  /\ UNCHANGED <<files, lba, extents, totalSectors, dotRec, dotdotRec, rootDir,
                 doff, i, pvd, vdst, parked, recArgs, recOut, enc, host>>

NextPair ==
  \/ Next
  \/ CallVariant

SpecPair == InitPair /\ [][NextPair]_vars

-----------------------------------------------------------------------------
(* two invocations of makeCloudInitIso, their steps interleaved *)

\* the arguments and locals of the running invocation, as a record
Frame ==
  [userData |-> userData, metaData |-> metaData, pc |-> pc, files |-> files,
   lba |-> lba, extents |-> extents, totalSectors |-> totalSectors,
   dotRec |-> dotRec, dotdotRec |-> dotdotRec, rootDir |-> rootDir,
   doff |-> doff, i |-> i, pvd |-> pvd, vdst |-> vdst, iso |-> iso,
   result |-> result]

\* mutant of Restored: lba is one variable for both invocations
RestoredSharing(f) == [f EXCEPT !.lba = lba]

\* what a suspended invocation finds when it runs again: all its locals are
\* declared inside the function (lines 10-75), so they are as it left them
Restored(f) == f

InitPar ==
  /\ \E args \in CallInputs : userData = args[1] /\ metaData = args[2]
  /\ pc = "encode"
  /\ Unassigned
  /\ Alone

\* a second invocation begins, with other arguments, while the first has not
\* ended; the first is suspended
StartSecond ==
  /\ calls = 1
  /\ parked = <<>>
  /\ pc \notin {"done", "threw"}
  /\ \E args \in CallInputs :
       /\ args # <<userData, metaData>>
       /\ userData' = args[1]
       /\ metaData' = args[2]
  /\ parked' = <<Frame>>
  /\ calls' = 2
  /\ pc' = "encode"
  /\ files' = <<>> /\ lba' = 0 /\ extents' = <<>> /\ totalSectors' = 0
  /\ dotRec' = <<>> /\ dotdotRec' = <<>> /\ rootDir' = <<>>
  /\ doff' = 0 /\ i' = 0
  /\ pvd' = <<>> /\ vdst' = <<>> /\ iso' = <<>> /\ result' = <<>>
  /\ UNCHANGED <<seen, recArgs, recOut, enc, host>>

\* the scheduler suspends the running invocation and resumes the other
Switch ==
  /\ parked # <<>>
  /\ LET f == Restored(parked[1])
     IN /\ userData' = f.userData /\ metaData' = f.metaData /\ pc' = f.pc
        /\ files' = f.files /\ lba' = f.lba /\ extents' = f.extents
        /\ totalSectors' = f.totalSectors
        /\ dotRec' = f.dotRec /\ dotdotRec' = f.dotdotRec
        /\ rootDir' = f.rootDir /\ doff' = f.doff /\ i' = f.i
        /\ pvd' = f.pvd /\ vdst' = f.vdst /\ iso' = f.iso
        /\ result' = f.result
  /\ parked' = <<Frame>>
  /\ UNCHANGED <<calls, seen, recArgs, recOut, enc, host>>

NextPar ==
  \/ Next
  \/ StartSecond
  \/ Switch

SpecPar == InitPar /\ [][NextPar]_vars

-----------------------------------------------------------------------------
(* The VM methods on the host: verify in one process, a method with a single
   key file (restart, and the others of its shape) in another *)

\* the last clock value reached
MaxClock == 40000

\* how many single milliseconds pass between two multiples of the poll interval
MaxJitter == 1

\* const pollInterval = 10_000
PollInterval == 10000

\* (args.timeoutSeconds ?? 300): the default, in seconds
DefaultTimeout == 300

\* timeoutSeconds omitted
NoTimeout == 0

\* return null: no key file
NoPath == 0 - 1

Procs == {1, 2}

\* what the methods leave alone
nothost == <<frame, calls, seen, parked, recArgs, recOut, enc>>

\* `/tmp/.swamp-unraid-${Date.now()}`: the path is the clock value
KeyPath(t) == t

\* Deno.writeTextFile(path, content): the file at path now holds content
WriteFile(d, path, content) == {e \in d : e[1] # path} \cup {<<path, content>>}

\* Deno.remove(path).catch(() => {}): the file is gone, if it was there
RemoveFile(d, path) == {e \in d : e[1] # path}

\* (args.timeoutSeconds ?? 300) * 1000
TimeoutMs(ts) == (IF ts = NoTimeout THEN DefaultTimeout ELSE ts) * 1000

\* mutant of Passed: the cloud-init status not looked at
PassedWithoutStatus(hostnameOk, userOk, status) == hostnameOk /\ userOk

\* actualHostname === expectedHostname && userRes.code === 0 &&
\* cloudInitStatus === "done"
Passed(hostnameOk, userOk, status) == hostnameOk /\ userOk /\ status = "done"

\* an invocation before its first step
NewInvocation(m, key, userKey, ts) ==
  [method |-> m, pc |-> "setup",
   sshPrivateKey |-> key, userSshPrivateKey |-> userKey, timeoutSeconds |-> ts,
   keyFile |-> NoPath, rootKeyFile |-> NoPath, userKeyFile |-> NoPath,
   deadline |-> 0, asked |-> 0, wake |-> 0,
   vmIp |-> FALSE, ipAsked |-> FALSE, ipAnswered |-> FALSE,
   sshReady |-> FALSE, sshAsked |-> FALSE, sshAnswered |-> FALSE,
   hostnameOk |-> FALSE, userOk |-> FALSE, cloudInitStatus |-> "unknown",
   outcome |-> "none"]

InitHost ==
  /\ userData = <<>> /\ metaData = <<>>
  /\ pc = "idle"
  /\ Unassigned
  /\ calls = 0 /\ seen = {} /\ parked = <<>>
  /\ recArgs = NoRecArgs /\ recOut = <<>>
  /\ NoEnc
  /\ now = 0
  /\ disk = {}
  /\ resources = {}
  /\ \E key \in BOOLEAN, userKey \in BOOLEAN, ts \in {30} :
       inv = [p \in Procs |->
                IF p = 1 THEN NewInvocation("verify", key, userKey, ts)
                ELSE NewInvocation("restart", TRUE, FALSE, NoTimeout)]

\* time passes: a millisecond, or a poll interval
Tick ==
  /\ \E d \in {1, PollInterval} :
       /\ now + d <= MaxClock
       /\ d = 1 => now % PollInterval < MaxJitter
       /\ now' = now + d
  /\ UNCHANGED <<disk, inv, resources, nothost>>

\* line 547: const rootKeyFile = await setupKeyFile(sshPrivateKey), before the
\* try block; Deno.writeTextFile may reject
VerifySetupRoot(p) ==
  /\ inv[p].method = "verify" /\ inv[p].pc = "setup"
  /\ IF inv[p].sshPrivateKey
     THEN \/ /\ disk' = WriteFile(disk, KeyPath(now), <<p, "root">>)
             /\ inv' = [inv EXCEPT ![p].rootKeyFile = KeyPath(now),
                                   ![p].pc = "setupUser"]
          \/ /\ disk' = disk
             /\ inv' = [inv EXCEPT ![p].outcome = "threw", ![p].pc = "ended"]
     ELSE /\ disk' = disk
          /\ inv' = [inv EXCEPT ![p].rootKeyFile = NoPath, ![p].pc = "setupUser"]
  /\ UNCHANGED <<now, resources, nothost>>

\* line 548: const userKeyFile = await setupKeyFile(userSshPrivateKey), before
\* the try block
VerifySetupUser(p) ==
  /\ inv[p].method = "verify" /\ inv[p].pc = "setupUser"
  /\ IF inv[p].userSshPrivateKey
     THEN \/ /\ disk' = WriteFile(disk, KeyPath(now), <<p, "user">>)
             /\ inv' = [inv EXCEPT ![p].userKeyFile = KeyPath(now),
                                   ![p].pc = "begin"]
          \/ /\ disk' = disk
             /\ inv' = [inv EXCEPT ![p].outcome = "threw", ![p].pc = "ended"]
     ELSE /\ disk' = disk
          /\ inv' = [inv EXCEPT ![p].userKeyFile = NoPath, ![p].pc = "begin"]
  /\ UNCHANGED <<now, resources, nothost>>

\* line 556: const deadline = Date.now() + timeoutMs
VerifyBegin(p) ==
  /\ inv[p].method = "verify" /\ inv[p].pc = "begin"
  /\ inv' = [inv EXCEPT ![p].deadline = now + TimeoutMs(inv[p].timeoutSeconds),
                        ![p].pc = "ipTest"]
  /\ UNCHANGED <<now, disk, resources, nothost>>

\* line 559: while (Date.now() < deadline), and the command sent
IpTest(p) ==
  /\ inv[p].pc = "ipTest"
  /\ inv' = IF now < inv[p].deadline
            THEN [inv EXCEPT ![p].asked = now, ![p].pc = "ipPoll"]
            ELSE [inv EXCEPT ![p].pc = "ipCheck"]
  /\ UNCHANGED <<now, disk, resources, nothost>>

\* lines 560-569: the answer of virsh domifaddr arrives, with an address or
\* without
IpAnswer(p) ==
  /\ inv[p].pc = "ipPoll"
  /\ \E found \in BOOLEAN :
       inv' = IF found
              THEN [inv EXCEPT ![p].vmIp = TRUE,
                               ![p].ipAsked = inv[p].asked < inv[p].deadline,
                               ![p].ipAnswered = now < inv[p].deadline,
                               ![p].asked = 0,
                               ![p].pc = "ipCheck"]
              ELSE [inv EXCEPT ![p].wake = now + PollInterval,
                               ![p].asked = 0,
                               ![p].pc = "ipSleep"]
  /\ UNCHANGED <<now, disk, resources, nothost>>

\* line 570: the timer of pollInterval fires
IpWake(p) ==
  /\ inv[p].pc = "ipSleep"
  /\ now >= inv[p].wake
  /\ inv' = [inv EXCEPT ![p].wake = 0, ![p].pc = "ipTest"]
  /\ UNCHANGED <<now, disk, resources, nothost>>

\* lines 573-575: if (!vmIp) throw
IpCheck(p) ==
  /\ inv[p].pc = "ipCheck"
  /\ inv' = IF inv[p].vmIp
            THEN [inv EXCEPT ![p].pc = "sshTest"]
            ELSE [inv EXCEPT ![p].outcome = "threw", ![p].pc = "cleanupRoot"]
  /\ UNCHANGED <<now, disk, resources, nothost>>

\* line 579: while (Date.now() < deadline), and the command sent
SshTest(p) ==
  /\ inv[p].pc = "sshTest"
  /\ inv' = IF now < inv[p].deadline
            THEN [inv EXCEPT ![p].asked = now, ![p].pc = "sshPoll"]
            ELSE [inv EXCEPT ![p].pc = "sshCheck"]
  /\ UNCHANGED <<now, disk, resources, nothost>>

\* lines 580-585: the answer of "echo ready" arrives, good or not
SshAnswer(p) ==
  /\ inv[p].pc = "sshPoll"
  /\ \E ready \in BOOLEAN :
       inv' = IF ready
              THEN [inv EXCEPT ![p].sshReady = TRUE,
                               ![p].sshAsked = inv[p].asked < inv[p].deadline,
                               ![p].sshAnswered = now < inv[p].deadline,
                               ![p].asked = 0,
                               ![p].pc = "sshCheck"]
              ELSE [inv EXCEPT ![p].wake = now + PollInterval,
                               ![p].asked = 0,
                               ![p].pc = "sshSleep"]
  /\ UNCHANGED <<now, disk, resources, nothost>>

\* line 586: the timer of pollInterval fires
SshWake(p) ==
  /\ inv[p].pc = "sshSleep"
  /\ now >= inv[p].wake
  /\ inv' = [inv EXCEPT ![p].wake = 0, ![p].pc = "sshTest"]
  /\ UNCHANGED <<now, disk, resources, nothost>>

\* lines 589-591: if (!sshReady) throw
SshCheck(p) ==
  /\ inv[p].pc = "sshCheck"
  /\ inv' = IF inv[p].sshReady
            THEN [inv EXCEPT ![p].pc = "collect"]
            ELSE [inv EXCEPT ![p].outcome = "threw", ![p].pc = "cleanupRoot"]
  /\ UNCHANGED <<now, disk, resources, nothost>>

\* lines 596-610: the three commands of Promise.all; "hostname" runs without
\* allowFailure, so its failure throws
Collect(p) ==
  /\ inv[p].pc = "collect"
  /\ \/ inv' = [inv EXCEPT ![p].outcome = "threw", ![p].pc = "cleanupRoot"]
     \/ \E h \in BOOLEAN, u \in BOOLEAN, s \in {"done", "running", "unknown"} :
          inv' = [inv EXCEPT ![p].hostnameOk = h, ![p].userOk = u,
                             ![p].cloudInitStatus = s, ![p].pc = "judge"]
  /\ UNCHANGED <<now, disk, resources, nothost>>

\* lines 616-635: passed, the throw when it is false, and writeResource,
\* which may reject
Judge(p) ==
  /\ inv[p].pc = "judge"
  /\ LET passed == Passed(inv[p].hostnameOk, inv[p].userOk,
                          inv[p].cloudInitStatus)
     IN IF passed
        THEN \/ /\ resources' = resources \cup
                      {[kind |-> "verifyResult", by |-> p,
                        hostnameOk |-> inv[p].hostnameOk,
                        userOk |-> inv[p].userOk,
                        cloudInitStatus |-> inv[p].cloudInitStatus,
                        passed |-> passed]}
                /\ inv' = [inv EXCEPT ![p].outcome = "returned",
                                      ![p].pc = "cleanupRoot"]
             \/ /\ resources' = resources
                /\ inv' = [inv EXCEPT ![p].outcome = "threw",
                                      ![p].pc = "cleanupRoot"]
        ELSE /\ resources' = resources
             /\ inv' = [inv EXCEPT ![p].outcome = "threw", ![p].pc = "cleanupRoot"]
  /\ UNCHANGED <<now, disk, nothost>>

\* line 637: await cleanupKeyFile(rootKeyFile)
CleanupRoot(p) ==
  /\ inv[p].pc = "cleanupRoot"
  /\ disk' = IF inv[p].rootKeyFile # NoPath
             THEN RemoveFile(disk, inv[p].rootKeyFile) ELSE disk
  /\ inv' = [inv EXCEPT ![p].pc = "cleanupUser"]
  /\ UNCHANGED <<now, resources, nothost>>

\* line 638: await cleanupKeyFile(userKeyFile)
CleanupUser(p) ==
  /\ inv[p].pc = "cleanupUser"
  /\ disk' = IF inv[p].userKeyFile # NoPath
             THEN RemoveFile(disk, inv[p].userKeyFile) ELSE disk
  /\ inv' = [inv EXCEPT ![p].pc = "ended"]
  /\ UNCHANGED <<now, resources, nothost>>

\* line 504: const keyFile = await setupKeyFile(sshPrivateKey), before the try
\* block
RestartSetup(p) ==
  /\ inv[p].method = "restart" /\ inv[p].pc = "setup"
  /\ IF inv[p].sshPrivateKey
     THEN \/ /\ disk' = WriteFile(disk, KeyPath(now), <<p, "key">>)
             /\ inv' = [inv EXCEPT ![p].keyFile = KeyPath(now), ![p].pc = "ssh"]
          \/ /\ disk' = disk
             /\ inv' = [inv EXCEPT ![p].outcome = "threw", ![p].pc = "ended"]
     ELSE /\ disk' = disk
          /\ inv' = [inv EXCEPT ![p].keyFile = NoPath, ![p].pc = "ssh"]
  /\ UNCHANGED <<now, resources, nothost>>

\* lines 505-509: runSsh inside the try block; it throws on a non-zero exit
RestartSsh(p) ==
  /\ inv[p].pc = "ssh"
  /\ \E ok \in BOOLEAN :
       inv' = [inv EXCEPT ![p].outcome = IF ok THEN "returned" ELSE "threw",
                          ![p].pc = "cleanup"]
  /\ UNCHANGED <<now, disk, resources, nothost>>

\* line 510: await cleanupKeyFile(keyFile)
RestartCleanup(p) ==
  /\ inv[p].pc = "cleanup"
  /\ disk' = IF inv[p].keyFile # NoPath
             THEN RemoveFile(disk, inv[p].keyFile) ELSE disk
  /\ inv' = [inv EXCEPT ![p].pc = "ended"]
  /\ UNCHANGED <<now, resources, nothost>>

NextHost ==
  \/ Tick
  \/ \E p \in Procs : VerifySetupRoot(p)
  \/ \E p \in Procs : VerifySetupUser(p)
  \/ \E p \in Procs : VerifyBegin(p)
  \/ \E p \in Procs : IpTest(p)
  \/ \E p \in Procs : IpAnswer(p)
  \/ \E p \in Procs : IpWake(p)
  \/ \E p \in Procs : IpCheck(p)
  \/ \E p \in Procs : SshTest(p)
  \/ \E p \in Procs : SshAnswer(p)
  \/ \E p \in Procs : SshWake(p)
  \/ \E p \in Procs : SshCheck(p)
  \/ \E p \in Procs : Collect(p)
  \/ \E p \in Procs : Judge(p)
  \/ \E p \in Procs : CleanupRoot(p)
  \/ \E p \in Procs : CleanupUser(p)
  \/ \E p \in Procs : RestartSetup(p)
  \/ \E p \in Procs : RestartSsh(p)
  \/ \E p \in Procs : RestartCleanup(p)

SpecHost == InitHost /\ [][NextHost]_vars

\* the name length of the dirRecord call
RecNl == Len(recArgs.nameBytes)

\* what C20 says of a record apart from its first and name-length bytes
RecordLayout ==
  /\ Len(recOut) = 33 + RecNl + (IF RecNl % 2 = 0 THEN 1 ELSE 0)
  /\ Len(recOut) % 2 = 0
  /\ subarray(recOut, 33, 33 + RecNl) = recArgs.nameBytes
  /\ RecNl % 2 = 0 => At(recOut, 33 + RecNl) = 0

Ended == pc \in {"done", "threw"}

\* the earlier invocations that had the arguments of this one
SameArgs == {r \in seen : r.userData = userData /\ r.metaData = metaData}

\* C18: two invocations with the same (userData, metaData) return
\* byte-identical images, whatever calls came between them; nothing is
\* carried over from one call to the next.
C18_Deterministic ==
  Ended => \A r \in SameArgs : r.outcome = pc /\ r.image = Sectors(result)

\* the third call repeats the arguments of an earlier one after a call with
\* other arguments and another image
C18_Witness ==
  /\ Done /\ calls = 3
  /\ \E r \in SameArgs : r.outcome = "done" /\ Len(r.image) = Len(result) \div S
  /\ \E r \in seen \ SameArgs : r.outcome = "done" /\ r.image # Sectors(result)

\* the image of makeCloudInitIso(u, m) computed in one piece, from the same
\* operators as the steps
AloneImage(u, m) ==
  LET fs    == MakeFiles(u, m)
      e1    == FirstFileLba
      e2    == e1 + SectorsFor(Len(fs[1].data))
      total == e2 + SectorsFor(Len(fs[2].data))
      dot   == dirRecord(<<0>>, TRUE, 18, S)
      dd    == dirRecord(<<1>>, TRUE, 18, S)
      r1    == dirRecord(TextEncode(fs[1].name), FALSE, e1, Len(fs[1].data))
      r2    == dirRecord(TextEncode(fs[2].name), FALSE, e2, Len(fs[2].data))
      d0    == SetAt(SetAt(Zeros(S), dot, 0), dd, Len(dot))
      d1    == SetAt(d0, r1, Len(dot) + Len(dd))
      root  == SetAt(d1, r2, Len(dot) + Len(dd) + Len(r1))
      img   == Place(NewIso(total), MakePvd(total, dot), MakeVdst, root)
  IN SetAt(SetAt(img, fs[1].data, e1 * S), fs[2].data, e2 * S)

\* an invocation, running or suspended, that has returned has the image of
\* its arguments, and none has thrown
ReturnsAloneImage(f) ==
  /\ f.pc # "threw"
  /\ f.pc = "done" => f.result = AloneImage(f.userData, f.metaData)

\* C19: when two builds with different inputs run with their steps
\* interleaved, each returns the image it returns when run alone (the
\* behaviours in which no second invocation begins are the runs alone).
C19_Independent ==
  /\ ReturnsAloneImage(Frame)
  /\ \A k \in 1..Len(parked) : ReturnsAloneImage(parked[k])

\* one build has returned while the other, with other arguments, is
\* suspended in the middle of its extent loop
C19_Witness ==
  /\ Done /\ calls = 2 /\ Len(parked) = 1
  /\ parked[1].pc = "layout" /\ Len(parked[1].extents) = 1
  /\ <<parked[1].userData, parked[1].metaData>> # <<userData, metaData>>
  /\ result = AloneImage(userData, metaData)

\* the image's LBA 18, 2048 bytes
RootSector == subarray(result, 18 * S, 19 * S)

\* C21: each of the five directory records of the image (the four of LBA 18
\* and the copy in the PVD) has the bytes 126, 2, 21, 0, 0, 0, 0 at its
\* offsets 18-24, whatever the inputs.
C21_FixedDate ==
  Done =>
    /\ Cardinality(AllRecordOffsets) = 5
    /\ \A r \in AllRecordOffsets :
         subarray(result, r + 18, r + 25) = <<126, 2, 21, 0, 0, 0, 0>>

\* a returned image whose two payloads are not empty and differ
C21_Witness ==
  Done /\ Len(files[1].data) = 1 /\ Len(files[2].data) = S - 1

\* where a directory sector's records end when walked from offset 0
RecordsEnd(sector) ==
  LET offs == RecordOffsets(sector, 0)
  IN IF offs = <<>> THEN 0
     ELSE offs[Len(offs)] + At(sector, offs[Len(offs)])

\* C22: the records of LBA 18 start at 0, 34, 68 and 110, each where the one
\* before ends; they end at 152, within the sector; every byte after them is
\* zero.  While the sector is built, the records written so far end at doff
\* and the rest of the sector is zero.
C22_RootDirPacking ==
  /\ pc \in {"filerecs", "pvd", "vdst", "alloc", "place", "copy", "done"} =>
       /\ doff <= S
       /\ RecordsEnd(rootDir) = doff
       /\ pc = "filerecs" => Len(RecordOffsets(rootDir, 0)) = 2 + i
       /\ subarray(rootDir, doff, S) = Zeros(S - doff)
  /\ Done =>
       /\ RecordOffsets(RootSector, 0) = <<0, 34, 68, 110>>
       /\ At(RootSector, 0) = 34 /\ At(RootSector, 34) = 34
       /\ At(RootSector, 68) = 42 /\ At(RootSector, 110) = 42
       /\ subarray(RootSector, 152, S) = Zeros(S - 152)

\* a returned image whose root directory lists two files of several sectors
C22_Witness ==
  /\ Done /\ Len(Entries) = 4 /\ doff = 152
  /\ Len(files[1].data) = S + 1 /\ Len(files[2].data) = S + 1

\* C25: bytes [156,190) of LBA 16 equal the first record of LBA 18; both are
\* a directory record with extent 18 and data length 2048; the second record
\* of LBA 18 differs from the first in its name byte only (1, not 0).
C25_RootRecordCopies ==
  Done =>
    LET emb == subarray(PvdSector, 156, 190)
        dot == subarray(RootSector, 0, 34)
        dd  == subarray(RootSector, 34, 68)
    IN /\ emb = dot
       /\ At(dot, 0) = 34
       /\ u32le(dot, 2) = 18 /\ u32be(dot, 6) = 18
       /\ u32le(dot, 10) = 2048 /\ u32be(dot, 14) = 2048
       /\ At(dot, 25) = 2
       /\ At(dot, 32) = 1 /\ At(dot, 33) = 0 /\ At(dd, 33) = 1
       /\ \A k \in 0..33 : k # 33 => At(dd, k) = At(dot, k)

\* a returned image of more than 22 sectors
C25_Witness ==
  Done /\ Len(result) > 22 * S /\ Len(files[1].data) = 3000

\* the number of sectors a file of len bytes occupies
Occupied(len) == Max(1, CeilSectors(len))

\* bytes [from, to) of buffer b equal those of buffer a
SameBytes(a, b, from, to) == subarray(a, from, to) = subarray(b, from, to)

\* the copy loop is running and has copied k files
Copying(k) == pc = "copy" /\ i = k

\* the sector ranges of the two files: disjoint, in order, inside
\* [19, totalSectors)
RangesDisjoint ==
  /\ Len(extents) = 2
  /\ 19 <= extents[1]
  /\ extents[1] + Occupied(Len(files[1].data)) <= extents[2]
  /\ extents[2] + Occupied(Len(files[2].data)) <= totalSectors
  /\ Len(iso) = totalSectors * S

\* the two copies give the same buffer in either order
CopiesCommute ==
  LET a == SetAt(SetAt(iso, files[1].data, extents[1] * S),
                 files[2].data, extents[2] * S)
      b == SetAt(SetAt(iso, files[2].data, extents[2] * S),
                 files[1].data, extents[1] * S)
  IN a = b

\* a step of the copy loop changes no byte outside the sector range of the
\* file it copies
CopyFrame ==
  (pc = "copy" /\ pc' = "copy" /\ i' = i + 1) =>
    LET from == extents[i + 1] * S
        to   == (extents[i + 1] + Occupied(Len(files[i + 1].data))) * S
    IN /\ Len(iso') = Len(iso)
       /\ SameBytes(iso, iso', 0, from)
       /\ SameBytes(iso, iso', to, Len(iso))
       /\ subarray(iso', from, from + Len(files[i + 1].data)) = files[i + 1].data

\* C27: the sector ranges of the two files are disjoint and lie in
\* [19, totalSectors); each copy writes inside its file's range only, leaving
\* LBA 0-18 and the other file's range as they were, in either order.
C27_CopyFrame ==
  /\ [](pc = "copy" => RangesDisjoint)
  /\ [](Copying(0) => CopiesCommute)
  /\ [][CopyFrame]_vars

\* the first file, of more than a sector, has been copied and the second has not
C27_Witness ==
  /\ Copying(1)
  /\ Len(files[1].data) = S + 1 /\ Len(files[2].data) = S
  /\ subarray(iso, extents[1] * S, (extents[1] * S) + S + 1) = files[1].data
  /\ subarray(iso, extents[2] * S, Len(iso)) = Zeros(Len(iso) - (extents[2] * S))

\* the PVD's path table fields: the size at 132 (both-endian) and the
\* locations at 140 (little-endian) and 148 (big-endian)
PathTableSize == u32le(PvdSector, 132)
PathTableLocL == u32le(PvdSector, 140)
PathTableLocM == u32be(PvdSector, 148)

\* C23 as stated: the PVD's path-table size and location fields describe a
\* path table that is present in the image.
C23_AsClaimed ==
  Done =>
    /\ PathTableSize > 0
    /\ PathTableLocL \in 1..(totalSectors - 1)
    /\ PathTableLocM \in 1..(totalSectors - 1)
    /\ subarray(result, PathTableLocL * S, (PathTableLocL * S) + PathTableSize)
         # Zeros(PathTableSize)

\* C23, amended: the image has no path table.  The PVD gives the path table
\* size 0 in both byte orders and leaves the location fields (bytes 140-155)
\* zero; LBA 0-15 are zero, and every sector from LBA 19 on belongs to one of
\* the two file extents, so LBA 16, 17 and 18 are the only structural sectors.
C23_NoPathTable ==
  Done =>
    /\ PathTableSize = 0 /\ u32be(PvdSector, 136) = 0
    /\ subarray(PvdSector, 140, 156) = Zeros(16)
    /\ subarray(result, 0, 16 * S) = Zeros(16 * S)
    /\ Len(Entries) = 4
    /\ Entries[3].extentLba = 19
    /\ Entries[4].extentLba = 19 + Occupied(Entries[3].dataLen)
    /\ Len(result) = (Entries[4].extentLba + Occupied(Entries[4].dataLen)) * S

\* a returned image whose PVD announces no path table
C23_Witness ==
  /\ Done /\ PathTableSize = 0 /\ PathTableLocL = 0 /\ PathTableLocM = 0
  /\ Len(files[1].data) = 0 /\ Len(files[2].data) = 1

\* the little-endian and the big-endian u32 at off, as 16-bit halves
LeWords(buf, off) == [hi |-> u16le(buf, off + 2), lo |-> u16le(buf, off)]
BeWords(buf, off) == [hi |-> u16be(buf, off), lo |-> u16be(buf, off + 2)]

\* C28: for every v with 0 <= v < 2^32, v >= 2^31 included, the eight bytes
\* of u32b(v) are bytes, and read v both little-endian (bytes 0-3) and
\* big-endian (bytes 4-7); the four bytes of u16b(v) do so for 0 <= v < 2^16.
C28_EncodersExact ==
  encOut # <<>> =>
    /\ Len(encOut[1]) = 8 /\ Len(encOut[2]) = 4
    /\ \A k \in 1..8 : encOut[1][k] \in 0..255
    /\ \A k \in 1..4 : encOut[2][k] \in 0..255
    /\ LeWords(encOut[1], 0) = encArg
    /\ BeWords(encOut[1], 4) = encArg
    /\ u16le(encOut[2], 0) = encArg.lo
    /\ u16be(encOut[2], 2) = encArg.lo

\* the encoding of 2^32 - 2^16 + 128, which is above 2^31
C28_Witness ==
  /\ encArg = [hi |-> 65535, lo |-> 128]
  /\ encOut = <<<<128, 0, 255, 255, 255, 255, 0, 128>>, <<128, 0, 0, 128>>>>

\* the sectors of an image, joined again
RECURSIVE Joined(_)
Joined(sectors) ==
  IF sectors = <<>> THEN <<>>
  ELSE IF Len(sectors) = 1 THEN sectors[1]
  ELSE LET h == Len(sectors) \div 2
       IN Joined(SubSeq(sectors, 1, h)) \o Joined(SubSeq(sectors, h + 1, Len(sectors)))

\* buffers a and b have one length and differ inside [from, to) at most
DifferOnlyIn(a, b, from, to) ==
  /\ Len(a) = Len(b)
  /\ SameBytes(a, b, 0, from)
  /\ SameBytes(a, b, to, Len(a))

\* the payload range of the k-th root directory entry of the returned image
PayloadFrom(k) == Entries[k].extentLba * S
PayloadTo(k) == (Entries[k].extentLba * S) + Entries[k].dataLen

\* the earlier builds whose metaData was the same and whose userData encoded
\* to as many bytes, and the other way round
SameButUser ==
  {r \in seen : /\ r.metaData = metaData
                /\ r.userData # userData
                /\ Len(TextEncode(r.userData)) = Len(UserBytes)}
SameButMeta ==
  {r \in seen : /\ r.userData = userData
                /\ r.metaData # metaData
                /\ Len(TextEncode(r.metaData)) = Len(MetaBytes)}

\* C26: two builds with the same metaData and userData of equal byte length
\* give images of one length that differ inside USER-DATA's payload range
\* only, so LBA 0-18 and META-DATA's extent are identical; likewise with the
\* roles of the two strings exchanged.  The root directory and the PVD of the
\* second build are those of the first as soon as they are built.
C26_Noninterference ==
  /\ pc \in {"pvd", "vdst", "alloc", "place", "copy", "done"} =>
       \A r \in SameButUser \cup SameButMeta : rootDir = r.image[18 + 1]
  /\ pc \in {"vdst", "alloc", "place", "copy", "done"} =>
       \A r \in SameButUser \cup SameButMeta : pvd = r.image[16 + 1]
  /\ Done =>
       /\ \A r \in SameButUser :
            DifferOnlyIn(Joined(r.image), result, PayloadFrom(4), PayloadTo(4))
       /\ \A r \in SameButMeta :
            DifferOnlyIn(Joined(r.image), result, PayloadFrom(3), PayloadTo(3))

\* the second build has other userData of S + 1 bytes, and another image
C26_Witness ==
  /\ Done /\ calls = 2
  /\ Len(UserBytes) = S + 1
  /\ \E r \in SameButUser : Joined(r.image) # result

\* the invocation of process p is over
EndedInv(p) == inv[p].pc = "ended"

\* the verifyResult resources written by process p
ResultsBy(p) == {r \in resources : r.kind = "verifyResult" /\ r.by = p}

\* what C24 says of verify apart from the deadline: a result is written with
\* passed = true, and only after an address was obtained, SSH answered and the
\* three checks were good; an invocation that ends has either returned with
\* its result written or thrown with none
VerifyOutcome(p) ==
  /\ \A r \in ResultsBy(p) :
       /\ r.passed /\ r.hostnameOk /\ r.userOk /\ r.cloudInitStatus = "done"
       /\ inv[p].vmIp /\ inv[p].sshReady
       /\ inv[p].hostnameOk /\ inv[p].userOk
       /\ inv[p].cloudInitStatus = "done"
       /\ inv[p].outcome = "returned"
  /\ inv[p].outcome = "threw" => ResultsBy(p) = {}
  /\ inv[p].outcome = "returned" => ResultsBy(p) # {}
  /\ EndedInv(p) => inv[p].outcome \in {"returned", "threw"}

C29_AsClaimed ==
  \A p \in Procs : EndedInv(p) => \A e \in disk : e[2][1] # p

\* the key files in use: <<process, which key, path>>, from the return of
\* setupKeyFile to the cleanupKeyFile of that path
LiveKeys ==
  {<<p, "root", inv[p].rootKeyFile>> :
     p \in {q \in Procs : /\ inv[q].method = "verify"
                          /\ inv[q].rootKeyFile # NoPath
                          /\ inv[q].pc \notin {"setup", "cleanupUser", "ended"}}}
  \cup
  {<<p, "user", inv[p].userKeyFile>> :
     p \in {q \in Procs : /\ inv[q].method = "verify"
                          /\ inv[q].userKeyFile # NoPath
                          /\ inv[q].pc \notin {"setup", "setupUser", "ended"}}}
  \cup
  {<<p, "key", inv[p].keyFile>> :
     p \in {q \in Procs : /\ inv[q].method = "restart"
                          /\ inv[q].keyFile # NoPath
                          /\ inv[q].pc \in {"ssh", "cleanup"}}}

\* C30 as stated: two key files in use at the same time never have the same
\* path, and each is on the disk with what its own invocation wrote, neither
\* overwritten nor removed by another.
C30_AsClaimed ==
  /\ \A k1 \in LiveKeys, k2 \in LiveKeys : k1 # k2 => k1[3] # k2[3]
  /\ \A k \in LiveKeys : <<k[3], <<k[1], k[2]>>>> \in disk

====
